---- MODULE Spec2Model ----
(***************************************************************************)
(* Telemetry-to-metrics pipeline of Terrenos_Historicos_Traccar:           *)
(*   analysis.py         risk scorer and profile classifier                *)
(*   data_processing.py  day loader, excess-run detector, metrics          *)
(*                       aggregator, vehicle run over the day files        *)
(*                                                                         *)
(* Each unit of the pipeline is a pure transformation of a table.  A unit  *)
(* is studied under its own specification: the table is built row by row   *)
(* from small value sets and the unit is then applied to it.               *)
(*                                                                         *)
(* Arithmetic is exact.  Quantities that are fractions in the program are  *)
(* carried as integers in a fixed unit: thresholds and percentiles of the  *)
(* classifier in hundredths of a score point, risk scores of the scorer    *)
(* in 1/600 of a score point.                                              *)
(***************************************************************************)
EXTENDS Integers, Sequences, FiniteSets, TLC

VARIABLES
    unit,             \* which unit of the pipeline this behaviour exercises
    \* ---- profile classifier (analysis.perform_clustering)
    df_metrics,       \* the batch: rows of features, risk_score, cluster
    clustering,       \* "batch" before the call, then the branch taken
    threshold_low,    \* locals of the dynamic branch, in hundredths
    threshold_high,
    cluster_centers,  \* per tier and feature the mean, as [num, den]
    \* ---- risk scorer (analysis.calculate_*risk_score)
    row,              \* the DailyMetrics record being scored
    score_policy,     \* "none", then the scoring function last applied
    speed_threshold,  \* the company threshold handed to the enhanced scorer
    risk_score,       \* row["risk_score"], in 1/600 of a score point
    \* ---- excess-run detector (data_processing.detect_speed_excesses)
    df,               \* one day's samples: [Hora, dt_sec, Evento, Flags],
                      \* with Vel_kmh where the speed is read
    detection,        \* "loaded" before the call, "detected" after it
    is_exceso,        \* the column df["is_exceso"]
    run_id,           \* the column df["run_id"]
    durations,        \* first value returned: the episode durations
    excesses_info,    \* second value returned: the episodes
    \* ---- day loader (data_processing.load_excel_file)
    raw_rows,         \* the sheet as read: [Hora, Velocidad, Evento, Flags]
    loading,          \* "sheet" before the call, then "loaded" or "error"
    \* ---- metrics aggregator (data_processing.calculate_driving_metrics)
    metrics,          \* the DailyMetrics record returned
    aggregation,      \* "none" before the call, then "done" or "error"
    \* ---- vehicle run (data_processing.process_vehicle_files)
    disk,             \* the data directory: state of each daily folder
    excel_files,      \* the files find_excel_files_for_vehicle returns
    results,          \* the records appended by the loop
    files_data,       \* second value returned: per date, the day's data
    processing,       \* "idle" before the call, then "done" or "no files"
    \* ---- the Streamlit session (main.py)
    session_state,    \* st.session_state: the fields set at main.py:86-97
    widgets,          \* the values the sidebar widgets hold
    screen            \* what the last run of the script did and showed

classifier_vars == <<df_metrics, clustering, threshold_low, threshold_high,
                     cluster_centers>>
scorer_vars == <<row, score_policy, speed_threshold, risk_score>>

detector_vars == <<df, detection, is_exceso, run_id, durations,
                   excesses_info>>

loader_vars == <<raw_rows, loading>>

metrics_vars == <<metrics, aggregation>>

\* the units that turn files into DailyMetrics records
process_vars == <<disk, excel_files, results, files_data, processing>>

session_vars == <<session_state, widgets, screen>>

ingest_vars == <<loader_vars, metrics_vars, process_vars, session_vars>>

vars == <<unit, classifier_vars, scorer_vars, detector_vars, ingest_vars>>

(***************************************************************************)
(* Bounds of the model.                                                    *)
(***************************************************************************)
MaxBatch == 6
MaxSamples == 5
MaxFlagSamples == 3
MaxRows == 3
MaxReadings == 3
MaxDate == 2
MaxMeasured == 4

\* risk scores a day of the batch can carry (score points)
Scores == {5, 10, 15, 85, 90, 95}

(***************************************************************************)
(* Generic helpers.                                                        *)
(***************************************************************************)
Max2(a, b) == IF a >= b THEN a ELSE b
Min2(a, b) == IF a <= b THEN a ELSE b

RECURSIVE SeqMax(_)
SeqMax(s) == IF Len(s) = 1 THEN s[1] ELSE Max2(s[1], SeqMax(Tail(s)))

RECURSIVE SeqMin(_)
SeqMin(s) == IF Len(s) = 1 THEN s[1] ELSE Min2(s[1], SeqMin(Tail(s)))

RECURSIVE Insert(_, _)
Insert(x, s) ==
    IF s = <<>> THEN <<x>>
    ELSE IF x <= s[1] THEN <<x>> \o s
    ELSE <<s[1]>> \o Insert(x, Tail(s))

RECURSIVE SortAsc(_)
SortAsc(s) == IF s = <<>> THEN <<>> ELSE Insert(s[1], SortAsc(Tail(s)))

(***************************************************************************)
(* analysis.py: perform_clustering                                         *)
(***************************************************************************)
N_CLUSTERS == 3
min_moderate_threshold == 15
min_risky_threshold == 30

\* the column df_metrics["risk_score"].values
ScoresOf(batch) == [i \in 1..Len(batch) |-> batch[i].risk_score]

\* scores.max() - scores.min()
score_range(scores) == SeqMax(scores) - SeqMin(scores)

IsFlat_AbsoluteMax(scores) == SeqMax(scores) < 10

\* the test of the degenerate branch: score_range < 10
IsFlat(scores) == score_range(scores) < 10

\* np.percentile(scores, q), default linear interpolation, in hundredths:
\* the virtual index is q/100 * (n-1) into the sorted scores.
percentile(scores, q) ==
    LET sorted == SortAsc(scores)
        pos    == q * (Len(scores) - 1)
        k      == pos \div 100
        r      == pos % 100
    IN  IF r = 0 THEN 100 * sorted[k + 1]
        ELSE 100 * sorted[k + 1] + r * (sorted[k + 2] - sorted[k + 1])

ThresholdLow_NoFloor(scores) == percentile(scores, 33)

\* threshold_low = max(p33, min_moderate_threshold)
ThresholdLow(scores) ==
    Max2(percentile(scores, 33), 100 * min_moderate_threshold)

ThresholdHigh_NoFallback(scores) ==
    Max2(percentile(scores, 67), 100 * min_risky_threshold)

\* threshold_high = max(p67, min_risky_threshold), then the +10 fallback
ThresholdHigh(scores) ==
    LET low  == ThresholdLow(scores)
        high == Max2(percentile(scores, 67), 100 * min_risky_threshold)
    IN  IF high <= low THEN low + 100 * 10 ELSE high

assign_Folded(score, low, high) ==
    IF 100 * score < low THEN 0
    ELSE IF 100 * score < high THEN 2
    ELSE 1

assign_OneBased(score, low, high) ==
    IF 100 * score < low THEN 1
    ELSE IF 100 * score < high THEN 2
    ELSE 3

assign_Inclusive(score, low, high) ==
    IF 100 * score <= low THEN 0
    ELSE IF 100 * score <= high THEN 1
    ELSE 2

\* the closure assign_smart_cluster over threshold_low and threshold_high
assign_smart_cluster(score, low, high) ==
    IF 100 * score < low THEN 0
    ELSE IF 100 * score < high THEN 1
    ELSE 2

ClusterColumn_Absolute(scores) ==
    [i \in 1..Len(scores) |->
        assign_smart_cluster(scores[i], 100 * 30, 100 * 60)]

\* the column df_metrics["cluster"] that perform_clustering writes for a
\* non-empty batch with these scores
ClusterColumn(scores) ==
    IF IsFlat(scores)
    THEN [i \in 1..Len(scores) |-> 0]
    ELSE LET low  == ThresholdLow(scores)
             high == ThresholdHigh(scores)
         IN  [i \in 1..Len(scores) |->
                assign_smart_cluster(scores[i], low, high)]

\* the columns the centroids are taken over
features ==
    <<"vel_media_mov", "vel_max", "distancia_km", "num_excesos",
      "dur_exceso_tot_sec", "excesos_por_km", "harsh_accel_windows",
      "harsh_brake_windows">>

\* a day's values of the features, given as <<v1, ..., v8>>
FeatureRecord(values) ==
    [f \in {features[k] : k \in 1..Len(features)} |->
        values[CHOOSE k \in 1..Len(features) : features[k] = f]]

RECURSIVE SumFeature(_, _, _)
\* the sum of column f over the rows S of the batch
SumFeature(batch, S, f) ==
    IF S = {} THEN 0
    ELSE LET i == CHOOSE j \in S : TRUE
         IN  batch[i][f] + SumFeature(batch, S \ {i}, f)

Members(col, c) == Cardinality({i \in 1..Len(col) : col[i] = c})

\* for cluster_id in range(N_CLUSTERS): the mean of the tier's rows, or
\* np.zeros when the tier has no row
\* np.zeros(len(features))
ZeroCenter ==
    [f \in {features[k] : k \in 1..Len(features)} |-> [num |-> 0, den |-> 1]]

Centers_AllRows(batch, col) ==
    [c \in 0..(N_CLUSTERS - 1) |->
        IF Members(col, c) > 0
        THEN [f \in {features[k] : k \in 1..Len(features)} |->
                 [num |-> SumFeature(batch, 1..Len(batch), f),
                  den |-> Len(batch)]]
        ELSE ZeroCenter]

Centers(batch, col) ==
    [c \in 0..(N_CLUSTERS - 1) |->
        LET cluster_data == {i \in 1..Len(col) : col[i] = c}
        IN  IF cluster_data # {}
            THEN [f \in {features[k] : k \in 1..Len(features)} |->
                     [num |-> SumFeature(batch, cluster_data, f),
                      den |-> Cardinality(cluster_data)]]
            ELSE ZeroCenter]

NoCenters == <<>>

ClassifierStart ==
    /\ df_metrics = <<>>
    /\ clustering = "batch"
    /\ threshold_low = 0
    /\ threshold_high = 0
    /\ cluster_centers = NoCenters

\* One scored day joins the batch handed to the classifier: day holds
\* its values of the features.
AppendDay(score, day) ==
    /\ clustering = "batch"
    /\ Len(df_metrics) < MaxBatch
    /\ df_metrics' = Append(df_metrics,
                        day @@ [risk_score |-> score, cluster |-> -1])
    /\ UNCHANGED <<unit, clustering, threshold_low, threshold_high,
                   cluster_centers, scorer_vars, detector_vars,
                   ingest_vars>>

\* the batch with the column "cluster" set
WithClusters(batch, col) ==
    [i \in 1..Len(batch) |-> [batch[i] EXCEPT !.cluster = col[i]]]

\* the column "cluster" of a classified batch
ClustersOf(batch) == [i \in 1..Len(batch) |-> batch[i].cluster]

\* perform_clustering(df_metrics)
PerformClustering ==
    /\ clustering = "batch"
    /\ IF df_metrics = <<>>
       THEN /\ clustering' = "empty"
            /\ cluster_centers' = NoCenters
            /\ UNCHANGED <<df_metrics, threshold_low, threshold_high>>
       ELSE /\ IF IsFlat(ScoresOf(df_metrics))
               THEN /\ clustering' = "flat"
                    /\ UNCHANGED <<threshold_low, threshold_high>>
               ELSE /\ clustering' = "dynamic"
                    /\ threshold_low' = ThresholdLow(ScoresOf(df_metrics))
                    /\ threshold_high' = ThresholdHigh(ScoresOf(df_metrics))
            /\ df_metrics' = WithClusters(df_metrics,
                                ClusterColumn(ScoresOf(df_metrics)))
            /\ cluster_centers' = Centers(df_metrics, ClustersOf(df_metrics'))
    /\ UNCHANGED <<unit, scorer_vars, detector_vars,
                   ingest_vars>>

(***************************************************************************)
(* analysis.py: calculate_risk_score, calculate_enhanced_risk_score        *)
(*                                                                         *)
(* row["excesos_por_km"] is carried in hundredths.  A sub-score s of the   *)
(* program is carried as 6*s and a weight w as 100*w, so that every        *)
(* division of the program (by 40, by 600, by 30) is exact: a risk score   *)
(* is carried in 1/600 of a score point and the clip at 100 is at 60000.   *)
(***************************************************************************)
DEFAULT_SPEED_THRESHOLD == 85

\* min(row["excesos_por_km"] * 100, 100)
excesos_score(r) == Min2(6 * r.excesos_por_km, 600)

vel_score_Unguarded(r) == Min2((r.vel_max - 80) * 15, 600)

\* min((row["vel_max"] - 80) / 40 * 100, 100) if row["vel_max"] > 80 else 0
vel_score(r) ==
    IF r.vel_max > 80 THEN Min2((r.vel_max - 80) * 15, 600) ELSE 0

\* min((harsh_accel_windows + harsh_brake_windows) * 5, 100)
agresiv_score(r) ==
    Min2((r.harsh_accel_windows + r.harsh_brake_windows) * 30, 600)

\* min(row["dur_exceso_tot_sec"] / 600 * 100, 100)
duracion_score(r) == Min2(r.dur_exceso_tot_sec, 600)

\* the over-threshold penalty of the enhanced score
umbral_score(r, threshold) ==
    IF r.vel_max > threshold
    THEN Min2((r.vel_max - threshold) * 20, 600)
    ELSE 0

calculate_risk_score(r) ==
    Min2(  excesos_score(r) * 30
         + vel_score(r) * 20
         + agresiv_score(r) * 30
         + duracion_score(r) * 20,
         60000)

calculate_enhanced_risk_score(r, threshold) ==
    Min2(  excesos_score(r) * 25
         + vel_score(r) * 15
         + agresiv_score(r) * 25
         + duracion_score(r) * 15
         + umbral_score(r, threshold) * 20,
         60000)

\* DailyMetrics records offered to the scorer: every field non-negative
Rows ==
    [excesos_por_km      : {0, 40, 100, 250},
     vel_max             : {0, 60, 81, 100, 120, 150},
     harsh_accel_windows : {0, 3, 25},
     harsh_brake_windows : {0, 3, 25},
     dur_exceso_tot_sec  : {0, 90, 600, 4000}]

\* the positions of speed_threshold_slider: 60..120 in steps of 5
SliderValues == {60 + 5 * k : k \in 0..12}

\* thresholds a caller may pass
ThresholdValues == SliderValues \cup {0, 200}

ScorerStart ==
    /\ row = [excesos_por_km |-> 0, vel_max |-> 0, harsh_accel_windows |-> 0,
              harsh_brake_windows |-> 0, dur_exceso_tot_sec |-> 0]
    /\ score_policy = "none"
    /\ speed_threshold = DEFAULT_SPEED_THRESHOLD
    /\ risk_score = 0

\* df_metrics.apply(calculate_risk_score, axis=1) on one row
CalculateRiskScore ==
    /\ risk_score' = calculate_risk_score(row)
    /\ score_policy' = "baseline"
    /\ UNCHANGED <<unit, row, speed_threshold, classifier_vars, detector_vars,
                   ingest_vars>>

\* calculate_enhanced_risk_score(row) with speed_threshold=None
CalculateEnhancedDefault ==
    /\ speed_threshold' = DEFAULT_SPEED_THRESHOLD
    /\ risk_score' = calculate_enhanced_risk_score(row, DEFAULT_SPEED_THRESHOLD)
    /\ score_policy' = "enhanced"
    /\ UNCHANGED <<unit, row, classifier_vars, detector_vars,
                   ingest_vars>>

\* calculate_enhanced_risk_score(row, speed_threshold) from the slider
CalculateEnhanced(threshold) ==
    /\ speed_threshold' = threshold
    /\ risk_score' = calculate_enhanced_risk_score(row, threshold)
    /\ score_policy' = "enhanced"
    /\ UNCHANGED <<unit, row, classifier_vars, detector_vars,
                   ingest_vars>>

(***************************************************************************)
(* data_processing.py: texts and the two patterns                          *)
(*                                                                         *)
(* A text is a sequence of tokens.  A token is a phrase that the patterns  *)
(* read as a whole, a blank, or one of the characters the cleaner is       *)
(* about.                                                                  *)
(***************************************************************************)
ExcesoHead == "Exceso de Velocidad: 101 km/h"
ExcesoTail == "en zona de 80 km/h"
Blank      == " "
Durante1   == "durante 1 minutos"
Durante2   == "durante 2 minutos"
Backslash  == "\\"

NoText     == <<>>
ExcesoText == <<ExcesoHead, Blank, ExcesoTail>>
ExcesoDurante1 == ExcesoText \o <<Blank, Durante1>>
ExcesoDurante2 == ExcesoText \o <<Blank, Durante2>>

RECURSIVE SubBrackets(_)
\* re.sub(r"[\\[\\]\\(\\)]", "", text): the pattern is the class of
\* backslash and "[", then two backslashes, then "]"
SubBrackets(t) ==
    IF Len(t) < 4 THEN t
    ELSE IF /\ t[1] \in {Backslash, "["}
            /\ t[2] = Backslash
            /\ t[3] = Backslash
            /\ t[4] = "]"
         THEN SubBrackets(SubSeq(t, 5, Len(t)))
         ELSE <<t[1]>> \o SubBrackets(Tail(t))

RECURSIVE Strip(_)
Strip(t) ==
    IF t = <<>> THEN t
    ELSE IF t[1] = Blank THEN Strip(Tail(t))
    ELSE IF t[Len(t)] = Blank THEN Strip(SubSeq(t, 1, Len(t) - 1))
    ELSE t

clean_text(text) == Strip(SubBrackets(text))

\* bool(SPEED_EXCESS_RE.search(t)): the head, blanks (\s+), the tail
SPEED_EXCESS_RE(t) ==
    \E i \in 1..Len(t) : \E j \in (i + 2)..Len(t) :
        /\ t[i] = ExcesoHead
        /\ t[j] = ExcesoTail
        /\ \A k \in (i + 1)..(j - 1) : t[k] = Blank

MinutesOfToken(tok) ==
    IF tok = Durante1 THEN 1 ELSE IF tok = Durante2 THEN 2 ELSE -1

RECURSIVE MINUTES_RE(_)
\* str.extract(MINUTES_RE) on one text: the number of the first match,
\* -1 for NaN (no match)
MINUTES_RE(t) ==
    IF t = <<>> THEN -1
    ELSE IF MinutesOfToken(t[1]) >= 0 THEN MinutesOfToken(t[1])
    ELSE MINUTES_RE(Tail(t))

(***************************************************************************)
(* data_processing.py: detect_speed_excesses                               *)
(*                                                                         *)
(* Row labels are those of the frame: 0 .. len(df)-1; the row of label k   *)
(* is df[k + 1].                                                           *)
(***************************************************************************)
\* one value of df["Texto"] (load_excel_file): both annotations joined by
\* a blank, then cleaned
Texto(sample) == clean_text(sample.Evento \o <<Blank>> \o sample.Flags)

Evento_clean_Texto(sample) == Texto(sample)

\* one value of df["Evento_clean"]: df["Evento"].fillna("").apply(clean_text)
Evento_clean(sample) == clean_text(sample.Evento)

\* df["Evento_clean"].apply(lambda t: bool(SPEED_EXCESS_RE.search(t)))
IsExcesoCol(d) == [i \in 1..Len(d) |-> SPEED_EXCESS_RE(Evento_clean(d[i]))]

RECURSIVE RunIdAt(_, _)
\* (is_exceso != is_exceso.shift(1)).cumsum(): the first row differs from
\* the missing value before it, so the first run has id 1
RunIdAt(flags, i) ==
    IF i = 1 THEN 1
    ELSE RunIdAt(flags, i - 1) + (IF flags[i] # flags[i - 1] THEN 1 ELSE 0)

RECURSIVE RunIdAt_OnEqual(_, _)
RunIdAt_OnEqual(flags, i) ==
    IF i = 1 THEN 1
    ELSE RunIdAt_OnEqual(flags, i - 1)
         + (IF flags[i] = flags[i - 1] THEN 1 ELSE 0)

RunIdCol_OnEqual(flags) == [i \in 1..Len(flags) |-> RunIdAt_OnEqual(flags, i)]

RunIdCol(flags) == [i \in 1..Len(flags) |-> RunIdAt(flags, i)]

\* the positions of the rows of one group of df.groupby("run_id")
Group(rids, r) == {i \in 1..Len(rids) : rids[i] = r}

SetMin(S) == CHOOSE x \in S : \A y \in S : x <= y
SetMax(S) == CHOOSE x \in S : \A y \in S : x >= y

RECURSIVE SumDt(_, _)
\* group["dt_sec"].sum()
SumDt(d, S) ==
    IF S = {} THEN 0
    ELSE LET i == SetMin(S) IN d[i].dt_sec + SumDt(d, S \ {i})

\* the baseline raw_sec of the group at positions S
raw_sec_Reversed(d, S) ==
    LET first == SetMin(S)
        last  == SetMax(S)
    IN  IF last + 1 <= Len(d)
        THEN d[first].Hora - d[last + 1].Hora
        ELSE SumDt(d, S)

raw_sec_LastOfRun(d, S) ==
    LET first == SetMin(S)
        last  == SetMax(S)
    IN  IF last + 1 <= Len(d)
        THEN d[last].Hora - d[first].Hora
        ELSE SumDt(d, S)

raw_sec(d, S) ==
    LET first == SetMin(S)
        last  == SetMax(S)
    IN  IF last + 1 <= Len(d)
        THEN d[last + 1].Hora - d[first].Hora
        ELSE SumDt(d, S)

\* mins_match[0].dropna().astype(int).max(), -1 when every value is NaN
MaxMinutes(d, S) ==
    SetMax({MINUTES_RE(Evento_clean(d[i])) : i \in S})

duration_Replace(d, S) ==
    IF MaxMinutes(d, S) >= 0
    THEN MaxMinutes(d, S) * 60
    ELSE raw_sec(d, S)

\* raw_sec after the minutes phrase is taken into account
duration_sec(d, S) ==
    IF MaxMinutes(d, S) >= 0
    THEN MaxMinutes(d, S) * 60 + raw_sec(d, S)
    ELSE raw_sec(d, S)

Episode(d, S) ==
    [start_time   |-> d[SetMin(S)].Hora,
     duration_sec |-> duration_sec(d, S),
     start_idx    |-> SetMin(S) - 1,
     end_idx      |-> SetMax(S) - 1]

RECURSIVE EpisodesFrom_NoSkip(_, _, _, _)
EpisodesFrom_NoSkip(d, flags, rids, r) ==
    IF Group(rids, r) = {} THEN <<>>
    ELSE <<Episode(d, Group(rids, r))>>
         \o EpisodesFrom_NoSkip(d, flags, rids, r + 1)

RECURSIVE EpisodesFrom(_, _, _, _)
\* the loop over df.groupby("run_id"), groups in increasing run_id, from
\* run r on; a group whose first row is not flagged is skipped
EpisodesFrom(d, flags, rids, r) ==
    IF Group(rids, r) = {} THEN <<>>
    ELSE LET S == Group(rids, r)
         IN  (IF flags[SetMin(S)] THEN <<Episode(d, S)>> ELSE <<>>)
             \o EpisodesFrom(d, flags, rids, r + 1)

DetectorStart ==
    /\ df = <<>>
    /\ detection = "loaded"
    /\ is_exceso = <<>>
    /\ run_id = <<>>
    /\ durations = <<>>
    /\ excesses_info = <<>>

\* One more row of the frame load_excel_file returns: rows are in time
\* order, dt_sec is the time since the previous row and 0 on the first.
AppendSample(gap, evento, flags) ==
    /\ detection = "loaded"
    /\ Len(df) < MaxSamples
    /\ df' = Append(df,
                [Hora   |-> IF df = <<>> THEN 0 ELSE df[Len(df)].Hora + gap,
                 dt_sec |-> IF df = <<>> THEN 0 ELSE gap,
                 Evento |-> evento,
                 Flags  |-> flags])
    /\ UNCHANGED <<unit, detection, is_exceso, run_id, durations,
                   excesses_info, classifier_vars, scorer_vars,
                   ingest_vars>>

\* detect_speed_excesses(df)
DetectSpeedExcesses ==
    /\ detection = "loaded"
    /\ is_exceso' = IsExcesoCol(df)
    /\ run_id' = RunIdCol(is_exceso')
    /\ excesses_info' = EpisodesFrom(df, is_exceso', run_id', 1)
    /\ durations' = [k \in 1..Len(excesses_info') |->
                        excesses_info'[k].duration_sec]
    /\ detection' = "detected"
    /\ UNCHANGED <<unit, df, classifier_vars, scorer_vars,
                   ingest_vars>>

(***************************************************************************)
(* data_processing.py: load_excel_file                                     *)
(*                                                                         *)
(* A sheet is the sequence of its data rows in file order.  Hora is the    *)
(* time of day in seconds; a cell that does not follow the timestamp       *)
(* format is BadHora.  A speed cell is a number, a text or empty.          *)
(***************************************************************************)
BadHora == -1

NumberCell(v) == [kind |-> "number", val |-> v]
TextCell(v)   == [kind |-> "numeric text", val |-> v]
WordCell      == [kind |-> "text", val |-> 0]
EmptyCell     == [kind |-> "empty", val |-> 0]

\* pd.to_numeric(cell, errors="coerce") followed by fillna(0): a number
\* and a text that reads as a number give that number, anything else NaN,
\* and NaN becomes 0
to_numeric(cell) ==
    IF cell.kind \in {"number", "numeric text"}
    THEN cell.val
    ELSE 0

SortedOrders_AsRead(rows) == {[i \in 1..Len(rows) |-> i]}

\* df.sort_values("Hora"): the orders of the rows that are ascending in
\* Hora; rows of equal Hora may come out in any order (quicksort)
SortedOrders(rows) ==
    {p \in [1..Len(rows) -> 1..Len(rows)] :
        /\ \A i, j \in 1..Len(rows) : i # j => p[i] # p[j]
        /\ \A i \in 1..Len(rows) - 1 : rows[p[i]].Hora <= rows[p[i + 1]].Hora}

\* the frame returned for the rows taken in order p: the index is reset,
\* Texto and Vel_kmh are derived, dt_sec is Hora.diff() with NaN as 0
Frame(rows, p) ==
    [i \in 1..Len(rows) |->
        [Hora    |-> rows[p[i]].Hora,
         dt_sec  |-> IF i = 1 THEN 0
                     ELSE rows[p[i]].Hora - rows[p[i - 1]].Hora,
         Evento  |-> rows[p[i]].Evento,
         Flags   |-> rows[p[i]].Flags,
         Texto   |-> Texto(rows[p[i]]),
         Vel_kmh |-> to_numeric(rows[p[i]].Velocidad)]]

LoaderStart ==
    /\ raw_rows = <<>>
    /\ loading = "sheet"


\* one more data row of the sheet
AppendRawRow(hora, velocidad, evento, flags) ==
    /\ loading = "sheet"
    /\ Len(raw_rows) < MaxRows
    /\ raw_rows' = Append(raw_rows,
                      [Hora |-> hora, Velocidad |-> velocidad,
                       Evento |-> evento, Flags |-> flags])
    /\ UNCHANGED <<unit, loading, classifier_vars, scorer_vars, detector_vars,
                   metrics_vars, process_vars, session_vars>>

\* load_excel_file(filepath): pd.to_datetime raises on a cell that does
\* not follow the format
LoadExcelFile ==
    /\ loading = "sheet"
    /\ IF \E i \in 1..Len(raw_rows) : raw_rows[i].Hora = BadHora
       THEN /\ loading' = "error"
            /\ UNCHANGED df
       ELSE /\ loading' = "loaded"
            /\ \E p \in SortedOrders(raw_rows) : df' = Frame(raw_rows, p)
    /\ UNCHANGED <<unit, raw_rows, detection, is_exceso, run_id, durations,
                   excesses_info, classifier_vars, scorer_vars, metrics_vars,
                   process_vars, session_vars>>

(***************************************************************************)
(* data_processing.py: calculate_driving_metrics                           *)
(*                                                                         *)
(* Hora counts seconds; a day has 86400 of them.  Quotients are carried    *)
(* as fractions [num, den]; distancia_km is carried in units of 1/3600 km  *)
(* (km/h times seconds).                                                   *)
(***************************************************************************)
SecondsPerHour == 3600
SecondsPerMinute == 60
HoursPerDay == 24

Frac(n, d) == [num |-> n, den |-> d]

\* fraction f (den > 0) compared with the whole number k
GreaterThan_Inclusive(f, k) == f.num >= k * f.den

GreaterThan(f, k) == f.num > k * f.den

LessThan(f, k) == f.num < k * f.den

\* the rows of df[df["Vel_kmh"] > 1]
mov(d) == {i \in 1..Len(d) : d[i].Vel_kmh > 1}

RECURSIVE SumVel(_, _)
SumVel(d, S) ==
    IF S = {} THEN 0
    ELSE LET i == SetMin(S) IN d[i].Vel_kmh + SumVel(d, S \ {i})

\* mov.mean() if not mov.empty else 0
vel_media_mov(d) ==
    IF mov(d) = {} THEN Frac(0, 1)
    ELSE Frac(SumVel(d, mov(d)), Cardinality(mov(d)))

\* df["Vel_kmh"].max()
vel_max(d) == SetMax({d[i].Vel_kmh : i \in 1..Len(d)})

\* df["Vel_kmh"].diff().fillna(0) at row i
delta_v(d, i) == IF i = 1 THEN 0 ELSE d[i].Vel_kmh - d[i - 1].Vel_kmh

RECURSIVE distancia_km_Delta(_, _)
distancia_km_Delta(d, n) ==
    IF n = 0 THEN 0
    ELSE distancia_km_Delta(d, n - 1) + delta_v(d, n) * d[n].dt_sec

RECURSIVE distancia_km(_, _)
\* (df["Vel_kmh"] * df["dt_sec"] / 3600).sum() over the first n rows, in
\* units of 1/3600 km
distancia_km(d, n) ==
    IF n = 0 THEN 0
    ELSE distancia_km(d, n - 1) + d[n].Vel_kmh * d[n].dt_sec

RECURSIVE SeqSum(_)
SeqSum(s) == IF s = <<>> THEN 0 ELSE Head(s) + SeqSum(Tail(s))

dur_exceso_tot_sec_Longest(durs) == IF durs = <<>> THEN 0 ELSE SeqMax(durs)

\* sum(durations)
dur_exceso_tot_sec(durs) == SeqSum(durs)

\* num_excesos / distancia_km if distancia_km > 0 else 0, for a distance
\* given in units of 1/3600 km
excesos_por_km(num, dist) ==
    IF dist > 0 THEN Frac(num * SecondsPerHour, dist) ELSE Frac(0, 1)

\* df["Hora"].dt.floor("T"): the minute the row falls in
tramo(hora) == hora \div SecondsPerMinute

\* delta_v / dt_sec.replace(0, nan), then fillna(0)
acc_kmhps(d, i) ==
    IF d[i].dt_sec = 0 THEN Frac(0, 1) ELSE Frac(delta_v(d, i), d[i].dt_sec)

\* df["Hora"].dt.hour
hora(t) == (t \div SecondsPerHour) % HoursPerDay

Bins == <<0, 6, 12, 18, 24>>
Labels == <<"Madrugada", "Manana", "Tarde", "Noche">>

\* pd.cut(hora, bins, labels): bin k is the interval (Bins[k], Bins[k+1]],
\* open on the left and closed on the right; an hour in no bin gives NaN
franja(h) ==
    IF \E k \in 1..Len(Labels) : Bins[k] < h /\ h <= Bins[k + 1]
    THEN Labels[CHOOSE k \in 1..Len(Labels) : Bins[k] < h /\ h <= Bins[k + 1]]
    ELSE "NaN"

\* the frame with the columns the aggregator adds to it
WithColumns(d) ==
    [i \in 1..Len(d) |->
        d[i] @@ [tramo     |-> tramo(d[i].Hora),
                 delta_v   |-> delta_v(d, i),
                 acc_kmhps |-> acc_kmhps(d, i),
                 hora      |-> hora(d[i].Hora),
                 franja    |-> franja(hora(d[i].Hora))]]

\* (win["acc_kmhps"].max() > 10).sum() over win = df.groupby("tramo")
harsh_accel_w(d) ==
    Cardinality({w \in {d[i].tramo : i \in 1..Len(d)} :
        \E i \in 1..Len(d) :
            d[i].tramo = w /\ GreaterThan(d[i].acc_kmhps, 10)})

\* (win["acc_kmhps"].min() < -10).sum()
harsh_brake_w(d) ==
    Cardinality({w \in {d[i].tramo : i \in 1..Len(d)} :
        \E i \in 1..Len(d) :
            d[i].tramo = w /\ LessThan(d[i].acc_kmhps, -10)})

\* the dictionary built by the loop over excesses_info: for each franja of
\* an episode's start row, the number of episodes starting in it
excesos_por_franja(d, info) ==
    LET key(k) == d[info[k].start_idx + 1].franja
    IN  [f \in {key(k) : k \in 1..Len(info)} |->
            Cardinality({k \in 1..Len(info) : key(k) = f})]

\* mov.count() * df["dt_sec"].mean() / 60 if not mov.empty else 0
tiempo_conduccion_min(d) ==
    IF mov(d) = {} THEN Frac(0, 1)
    ELSE Frac(Cardinality(mov(d)) * SumDt(d, 1..Len(d)),
              Len(d) * SecondsPerMinute)

NoMetrics ==
    [fecha |-> -1, vel_media_mov |-> Frac(0, 1), vel_max |-> 0,
     distancia_km |-> 0, num_excesos |-> 0, dur_exceso_tot_sec |-> 0,
     excesos_por_km |-> Frac(0, 1), harsh_accel_windows |-> 0,
     harsh_brake_windows |-> 0, excesos_por_franja |-> <<>>,
     tiempo_conduccion_min |-> Frac(0, 1)]

MetricsStart ==
    /\ metrics = NoMetrics
    /\ aggregation = "none"


\* One more row of a loaded frame that carries a speed: the first row is
\* at time start, each later row gap seconds after the previous one.
AppendReading(start, gap, vel, evento) ==
    /\ detection = "loaded"
    /\ aggregation = "none"
    /\ df' = Append(df,
                [Hora    |-> IF df = <<>> THEN start
                             ELSE df[Len(df)].Hora + gap,
                 dt_sec  |-> IF df = <<>> THEN 0 ELSE gap,
                 Evento  |-> evento,
                 Flags   |-> NoText,
                 Vel_kmh |-> vel])
    /\ UNCHANGED <<unit, detection, is_exceso, run_id, durations,
                   excesses_info, classifier_vars, scorer_vars, ingest_vars>>

\* calculate_driving_metrics(df, durations, excesses_info): iloc[0] raises
\* on an empty frame
CalculateDrivingMetrics ==
    /\ detection = "detected"
    /\ aggregation = "none"
    /\ IF df = <<>>
       THEN /\ aggregation' = "error"
            /\ UNCHANGED <<df, metrics>>
       ELSE /\ aggregation' = "done"
            /\ df' = WithColumns(df)
            /\ metrics' =
                 [fecha                 |-> df[1].Hora \div
                                              (HoursPerDay * SecondsPerHour),
                  vel_media_mov         |-> vel_media_mov(df),
                  vel_max               |-> vel_max(df),
                  distancia_km          |-> distancia_km(df, Len(df)),
                  num_excesos           |-> Len(durations),
                  dur_exceso_tot_sec    |-> dur_exceso_tot_sec(durations),
                  excesos_por_km        |-> excesos_por_km(Len(durations),
                                              distancia_km(df, Len(df))),
                  harsh_accel_windows   |-> harsh_accel_w(df'),
                  harsh_brake_windows   |-> harsh_brake_w(df'),
                  excesos_por_franja    |-> excesos_por_franja(df',
                                              excesses_info),
                  tiempo_conduccion_min |-> tiempo_conduccion_min(df)]
    /\ UNCHANGED <<unit, detection, is_exceso, run_id, durations,
                   excesses_info, classifier_vars, scorer_vars, loader_vars,
                   process_vars, session_vars>>

(***************************************************************************)
(* data_processing.py: find_excel_files_for_vehicle, process_vehicle_files *)
(*                                                                         *)
(* The data directory holds vehicle folders; a vehicle folder holds one    *)
(* daily folder per date, tagged with the folder's vehicle.  Dates are     *)
(* numbered 1, 2, ...; NoDate is the argument None.  A daily folder is     *)
(* "absent", "empty" (no Excel file of the expected name), "good" (its     *)
(* file loads, is scanned and aggregated) or "bad" (one of the three       *)
(* calls raises, as load_excel_file on a malformed timestamp and           *)
(* calculate_driving_metrics on a frame without rows do).  A good file     *)
(* holds the readings of the date of its daily folder.                     *)
(***************************************************************************)
NoDate == 0

Dates == 1..MaxDate

Vehicles == {"A", "B"}

\* two export folders of vehicle A and one of vehicle B
Folders == {"A1", "A2", "B1"}

VehicleOf(folder) == IF folder = "B1" THEN "B" ELSE "A"

RECURSIVE DailyFiles(_, _, _, _)
\* lines 113-132 for one vehicle folder: the Excel files of its daily
\* folders from date d on that lie in the range.  The order in which
\* iterdir lists the daily folders does not survive the sort by date.
DailyFiles(folder, d, start_date, end_date) ==
    IF d > MaxDate THEN <<>>
    ELSE (IF /\ disk[<<folder, d>>] \in {"good", "bad"}
             /\ ~(start_date # NoDate /\ d < start_date)
             /\ ~(end_date # NoDate /\ d > end_date)
          THEN <<[filepath |-> <<folder, d>>,
                  date     |-> d,
                  vehicle  |-> VehicleOf(folder),
                  filename |-> <<d, VehicleOf(folder)>>]>>
          ELSE <<>>)
         \o DailyFiles(folder, d + 1, start_date, end_date)

RECURSIVE Listing(_, _, _, _)
\* lines 111-132: the files appended while the vehicle folders are visited
\* in the order iterdir lists them
Listing(order, vehicle_id, start_date, end_date) ==
    IF order = <<>> THEN <<>>
    ELSE (IF VehicleOf(Head(order)) = vehicle_id
          THEN DailyFiles(Head(order), 1, start_date, end_date)
          ELSE <<>>)
         \o Listing(Tail(order), vehicle_id, start_date, end_date)

RECURSIVE SortByDate(_, _)
\* excel_files.sort(key=date) from date d on: a stable sort, files of the
\* same date keep the order in which they were appended
SortByDate(files, d) ==
    IF d > MaxDate THEN <<>>
    ELSE SelectSeq(files, LAMBDA f : f.date = d) \o SortByDate(files, d + 1)

find_excel_files_for_vehicle(order, vehicle_id, start_date, end_date) ==
    SortByDate(Listing(order, vehicle_id, start_date, end_date), 1)

\* the three calls of the try block succeed on this file
Loads(file) == disk[file.filepath] = "good"

RECURSIVE Records_StopAtFailure(_, _)
Records_StopAtFailure(files, vehicle_id) ==
    IF files = <<>> THEN <<>>
    ELSE IF Loads(Head(files))
         THEN <<[fecha |-> Head(files).date, vehicle_id |-> vehicle_id]>>
              \o Records_StopAtFailure(Tail(files), vehicle_id)
         ELSE <<>>

RECURSIVE Records(_, _)
\* the list results after the loop of lines 241-262: a file whose try
\* block raises is skipped and the loop goes on.  Of a record the model
\* keeps the date and the vehicle.
Records(files, vehicle_id) ==
    IF files = <<>> THEN <<>>
    ELSE (IF Loads(Head(files))
          THEN <<[fecha |-> Head(files).date, vehicle_id |-> vehicle_id]>>
          ELSE <<>>)
         \o Records(Tail(files), vehicle_id)

\* the dictionary files_data after the loop: keyed by the date of the
\* record, a later file of the same date replaces the earlier entry
FilesData(files, vehicle_id) ==
    LET good == SelectSeq(files, Loads)
        last(d) == SetMax({i \in 1..Len(good) : good[i].date = d})
    IN  [d \in {good[i].date : i \in 1..Len(good)} |->
            [df         |-> good[last(d)].filepath,
             filename   |-> good[last(d)].filename,
             vehicle_id |-> vehicle_id]]

\* the layouts of the data directory
Layouts ==
    {a @@ b : a \in [{"A1", "A2"} \X Dates ->
                        {"absent", "empty", "good", "bad"}],
              b \in [{"B1"} \X Dates -> {"absent", "good"}]}

\* the orders in which iterdir may list the vehicle folders
FolderOrders == {<<"A1", "A2", "B1">>, <<"B1", "A2", "A1">>}

ProcessStart ==
    /\ excel_files = <<>>
    /\ results = <<>>
    /\ files_data = <<>>
    /\ processing = "idle"

\* None where main.py:86-97 sets None: no vehicle, no date, no table
NoVehicle == ""

\* the session before the first interaction: st.session_state as the block
\* of main.py:86-97 leaves it, no widget touched, nothing shown.  A field
\* that is None holds the empty value of its kind; df_metrics, files_data
\* and cluster_centers are never stored empty (main.py:258-271).
SessionStart ==
    /\ session_state =
           [vehicles_discovered      |-> FALSE,
            available_vehicles       |-> <<>>,
            selected_vehicle         |-> NoVehicle,
            vehicle_data_loaded      |-> FALSE,
            df_metrics               |-> <<>>,
            files_data               |-> <<>>,
            cluster_centers          |-> NoCenters,
            openai_client            |-> FALSE,
            selected_start_date      |-> NoDate,
            selected_end_date        |-> NoDate,
            available_dates_in_range |-> <<>>]
    /\ widgets =
           [api_key                |-> FALSE,
            selectbox              |-> NoVehicle,
            start_date             |-> [v \in Vehicles |-> NoDate],
            end_date               |-> [v \in Vehicles |-> NoDate],
            speed_threshold_slider |-> DEFAULT_SPEED_THRESHOLD]
    /\ screen = [click |-> "none", reply |-> "none", message |-> "none",
                 calls |-> <<>>, header |-> NoVehicle, narrative |-> <<>>,
                 fault |-> FALSE]

\* the other units run with nothing on disk
IngestStart ==
    /\ LoaderStart
    /\ MetricsStart
    /\ ProcessStart
    /\ SessionStart
    /\ disk = [c \in Folders \X Dates |-> "absent"]

\* process_vehicle_files(vehicle_id, start_date, end_date)
ProcessVehicleFiles(vehicle_id, start_date, end_date) ==
    /\ processing = "idle"
    /\ \E order \in FolderOrders :
           excel_files' = find_excel_files_for_vehicle(order, vehicle_id,
                                                       start_date, end_date)
    /\ IF excel_files' = <<>>
       THEN /\ processing' = "no files"
            /\ UNCHANGED <<results, files_data>>
       ELSE /\ processing' = "done"
            /\ results' = Records(excel_files', vehicle_id)
            /\ files_data' = FilesData(excel_files', vehicle_id)
    /\ UNCHANGED <<unit, disk, classifier_vars, scorer_vars, detector_vars,
                   loader_vars, metrics_vars, session_vars>>

(***************************************************************************)
(* main.py: the Streamlit session.  Every interaction runs the script once *)
(* from top to bottom against st.session_state; an action of the model is  *)
(* one interaction followed by that run.                                   *)
(***************************************************************************)
\* the dates the date inputs are set to
SessionDates == {1, 2}

\* the positions the slider is moved to
SessionSliderValues == {DEFAULT_SPEED_THRESHOLD, 105, 120}

\* the directories the session runs on: vehicle A with two day files, the
\* first of which may be unreadable, vehicle B with a file for date 1 only
SessionLayouts ==
    {[c \in Folders \X Dates |->
         IF c = <<"A1", 1>> THEN first
         ELSE IF c \in {<<"A1", 2>>, <<"B1", 1>>} THEN "good"
         ELSE "absent"] : first \in {"good", "bad"}}

\* the values calculate_driving_metrics returns for three kinds of day,
\* excesos_por_km in hundredths; both scorers give them whole score points
CalmDay == FeatureRecord(<<40, 60, 10, 0, 0, 0, 0, 0>>)
MediumDay == FeatureRecord(<<50, 120, 20, 0, 0, 0, 0, 0>>)
RiskyDay == FeatureRecord(<<60, 120, 30, 30, 600, 100, 0, 0>>)

\* what the day file of a vehicle and date holds
DayMetrics(vehicle_id, fecha) ==
    IF vehicle_id = "A"
    THEN (IF fecha = 1 THEN CalmDay ELSE MediumDay)
    ELSE (IF fecha = 1 THEN RiskyDay ELSE MediumDay)

\* process_vehicle_files(vehicle_id, start_date, end_date) as the session
\* calls it: pd.DataFrame(results) with the metrics of each day, and
\* files_data
process_vehicle_files(order, vehicle_id, start_date, end_date) ==
    LET files == find_excel_files_for_vehicle(order, vehicle_id,
                                              start_date, end_date)
        recs  == Records(files, vehicle_id)
    IN  [excel_files |-> files,
         df_metrics  |-> [i \in 1..Len(recs) |->
                            recs[i] @@ DayMetrics(vehicle_id, recs[i].fecha)],
         files_data  |-> IF files = <<>> THEN <<>>
                         ELSE FilesData(files, vehicle_id)]

\* row[column] = value
SetColumn(r, column, value) ==
    [f \in DOMAIN r \cup {column} |-> IF f = column THEN value ELSE r[f]]

\* a score of the scorer model, carried in 1/600 point, in score points
Points(score) == score \div 600

\* df_metrics["risk_score"] = df_metrics.apply(calculate_risk_score, axis=1)
ApplyRiskScore(batch) ==
    [i \in 1..Len(batch) |->
        SetColumn(batch[i], "risk_score",
                  Points(calculate_risk_score(batch[i])))]

\* df_metrics["risk_score"] = df_metrics.apply(
\*     lambda row: calculate_enhanced_risk_score(row, speed_threshold), axis=1)
ApplyEnhancedRiskScore(batch, threshold) ==
    [i \in 1..Len(batch) |->
        SetColumn(batch[i], "risk_score",
                  Points(calculate_enhanced_risk_score(batch[i], threshold)))]

\* df_metrics, cluster_centers = perform_clustering(df_metrics)
perform_clustering(batch) ==
    IF batch = <<>>
    THEN [df_metrics |-> batch, cluster_centers |-> NoCenters]
    ELSE LET col == ClusterColumn(ScoresOf(batch))
         IN  [df_metrics      |-> [i \in 1..Len(batch) |->
                                     SetColumn(batch[i], "cluster", col[i])],
              cluster_centers |-> Centers(batch, col)]

RECURSIVE Keys(_, _)
\* the keys of the dict vehicles in the order in which the loop over the
\* vehicle folders first meets them
Keys(order, seen) ==
    IF order = <<>> THEN <<>>
    ELSE LET vehicle_id == VehicleOf(Head(order))
         IN  (IF vehicle_id \in seen THEN <<>> ELSE <<vehicle_id>>)
             \o Keys(Tail(order), seen \cup {vehicle_id})

\* discover_vehicles(): of the dict the model keeps the keys
discover_vehicles(order) == Keys(order, {})

\* vehicle_info["date_range"]: every vehicle folder is named for the whole
\* period
date_range(vehicle_id) == <<1, MaxDate>>

\* a call made while the script runs: the step that makes it, the function
\* and the number of rows of the table handed to it
Call(paso, fn, batch) == [paso |-> paso, fn |-> fn, rows |-> Len(batch)]

\* lines 128-136: a key typed into the sidebar makes the client
ApiKey(ss, w) ==
    IF w.api_key THEN [ss EXCEPT !.openai_client = TRUE] ELSE ss

\* Paso 1, the button pressed: discover_vehicles() finds the vehicle
\* folders of the directory
Paso1(ss, order) ==
    LET vehicles == discover_vehicles(order)
    IN  IF vehicles # <<>>
        THEN [ss EXCEPT !.available_vehicles = vehicles,
                        !.vehicles_discovered = TRUE]
        ELSE ss

\* st.selectbox(options=vehicle_options): the first option when the box is
\* new or its options have changed, the user's choice otherwise
SelectboxValue(w, options_before, ss) ==
    IF ~ss.vehicles_discovered THEN w.selectbox
    ELSE IF w.selectbox = NoVehicle \/ options_before # ss.available_vehicles
         THEN ss.available_vehicles[1]
         ELSE w.selectbox

\* Paso 2: if selected_vehicle: st.session_state.selected_vehicle = ...
Paso2(ss, selected_vehicle) ==
    IF ss.vehicles_discovered /\ selected_vehicle # NoVehicle
    THEN [ss EXCEPT !.selected_vehicle = selected_vehicle]
    ELSE ss

\* st.date_input(value=min_date, key=f"start_date_{selected_vehicle}")
StartDateValue(w, ss) ==
    IF w.start_date[ss.selected_vehicle] = NoDate
    THEN date_range(ss.selected_vehicle)[1]
    ELSE w.start_date[ss.selected_vehicle]

\* st.date_input(value=default_end, key=f"end_date_{selected_vehicle}")
EndDateValue(w, ss, start_date) ==
    IF w.end_date[ss.selected_vehicle] = NoDate
    THEN Min2(start_date + 7, date_range(ss.selected_vehicle)[2])
    ELSE w.end_date[ss.selected_vehicle]

\* Paso 3 shows the date inputs of the selected vehicle
Paso3Shown(ss) == ss.vehicles_discovered /\ ss.selected_vehicle # NoVehicle

\* Paso 3: a valid range is stored
Paso3(ss, start_date, end_date) ==
    IF start_date <= end_date
    THEN [ss EXCEPT !.selected_start_date = start_date,
                    !.selected_end_date = end_date]
    ELSE ss

\* Paso 4 shows its button
Paso4Shown(ss) ==
    /\ ss.vehicles_discovered
    /\ ss.selected_vehicle # NoVehicle
    /\ ss.selected_start_date # NoDate
    /\ ss.selected_end_date # NoDate

RECURSIVE SortedUnique(_, _)
\* sorted(df_metrics["fecha"].unique()) from date d on
SortedUnique(batch, d) ==
    IF d > MaxDate THEN <<>>
    ELSE (IF \E i \in 1..Len(batch) : batch[i].fecha = d
          THEN <<d>> ELSE <<>>)
         \o SortedUnique(batch, d + 1)

Paso4_NoLengthTest(ss, run) ==
    LET scored == ApplyRiskScore(run.df_metrics)
        pc     == perform_clustering(scored)
    IN  [session_state |->
             [ss EXCEPT !.df_metrics = pc.df_metrics,
                        !.files_data = run.files_data,
                        !.cluster_centers = pc.cluster_centers,
                        !.vehicle_data_loaded = TRUE,
                        !.available_dates_in_range =
                            SortedUnique(pc.df_metrics, 1)],
         message |-> "dias procesados",
         calls   |-> <<Call(4, "calculate_risk_score", run.df_metrics),
                       Call(4, "perform_clustering", run.df_metrics)>>]

\* Paso 4, the button pressed, after process_vehicle_files has returned
\* run: the message for an empty table, and otherwise the scores, the
\* tiers and the fields stored in the session
Paso4(ss, run) ==
    IF Len(run.df_metrics) = 0
    THEN [session_state |-> ss,
          message       |-> "No se encontraron datos",
          calls         |-> <<>>]
    ELSE LET scored == ApplyRiskScore(run.df_metrics)
             pc     == perform_clustering(scored)
         IN  [session_state |->
                  [ss EXCEPT !.df_metrics = pc.df_metrics,
                             !.files_data = run.files_data,
                             !.cluster_centers = pc.cluster_centers,
                             !.vehicle_data_loaded = TRUE,
                             !.available_dates_in_range =
                                 SortedUnique(pc.df_metrics, 1)],
              message |-> "dias procesados",
              calls   |-> <<Call(4, "calculate_risk_score", run.df_metrics),
                            Call(4, "perform_clustering", run.df_metrics)>>]

\* Paso 5: with the slider away from the default the scores are taken
\* again with the enhanced scorer and the tiers with them
Paso5(ss, threshold) ==
    IF /\ ss.vehicle_data_loaded
       /\ threshold # DEFAULT_SPEED_THRESHOLD
       /\ ss.df_metrics # <<>>
    THEN LET scored == ApplyEnhancedRiskScore(ss.df_metrics, threshold)
             pc     == perform_clustering(scored)
         IN  [session_state |->
                  [ss EXCEPT !.df_metrics = pc.df_metrics,
                             !.cluster_centers = pc.cluster_centers],
              calls |-> <<Call(5, "calculate_enhanced_risk_score",
                               ss.df_metrics),
                          Call(5, "perform_clustering", ss.df_metrics)>>]
    ELSE [session_state |-> ss, calls |-> <<>>]

\* the report is shown: the branch of main.py:391 on
ReportShown(ss) == ss.vehicles_discovered /\ ss.vehicle_data_loaded

generate_narrative_NoTry(r, reply) ==
    IF reply = "raises"
    THEN [outcome |-> "raised", value |-> <<"exception">>]
    ELSE [outcome |-> "returned", value |-> <<"narrative", r.fecha>>]

\* generate_narrative(row, client): the text the model answers with, or
\* the error text when client.chat.completions.create raises
generate_narrative(r, reply) ==
    IF reply = "raises"
    THEN [outcome |-> "returned", value |-> <<"Error generando narrativa">>]
    ELSE [outcome |-> "returned", value |-> <<"narrative", r.fecha>>]

\* nothing was asked of the language model
NoNarrative == [outcome |-> "none", value |-> <<>>]

\* day_metrics: the first row of the table whose fecha is the selected day
DayRow(batch, fecha) ==
    batch[CHOOSE i \in 1..Len(batch) :
              /\ batch[i].fecha = fecha
              /\ \A j \in 1..(i - 1) : batch[j].fecha # fecha]

\* One run of the script.  click is the button pressed in it, touched the
\* values the user has left in the widgets, order the order in which
\* iterdir lists the vehicle folders, fecha the day selected in the report
\* and reply what the call of the language model does.  Each step of the
\* script is taken once, on the session the step before it left.
Rerun(click, touched, order, fecha, reply) ==
    \E s2 \in {IF click = "scan"
                THEN Paso1(ApiKey(session_state, touched), order)
                ELSE ApiKey(session_state, touched)} :
    \E selected_vehicle \in
           {SelectboxValue(touched, session_state.available_vehicles, s2)} :
    \E s3 \in {Paso2(s2, selected_vehicle)} :
    \E start_date \in {IF Paso3Shown(s3)
                        THEN StartDateValue(touched, s3) ELSE NoDate} :
    \E end_date \in {IF Paso3Shown(s3)
                      THEN EndDateValue(touched, s3, start_date)
                      ELSE NoDate} :
    \E s4 \in {IF Paso3Shown(s3)
                THEN Paso3(s3, start_date, end_date) ELSE s3} :
    \E pressed \in {click = "process" /\ Paso4Shown(s4)} :
    \E run \in {IF pressed
                 THEN process_vehicle_files(order, s4.selected_vehicle,
                                            s4.selected_start_date,
                                            s4.selected_end_date)
                 ELSE [excel_files |-> <<>>, df_metrics |-> <<>>,
                       files_data |-> <<>>]} :
    \E p4 \in {IF pressed THEN Paso4(s4, run)
                ELSE [session_state |-> s4, message |-> "none",
                      calls |-> <<>>]} :
    \E p5 \in {Paso5(p4.session_state, touched.speed_threshold_slider)} :
        /\ session_state' = p5.session_state
        /\ widgets' =
               IF Paso3Shown(s3)
               THEN [touched EXCEPT
                        !.selectbox = selected_vehicle,
                        !.start_date[s3.selected_vehicle] = start_date,
                        !.end_date[s3.selected_vehicle] = end_date]
               ELSE [touched EXCEPT !.selectbox = selected_vehicle]
        /\ \E narrative \in
                  {IF /\ click = "narrative"
                      /\ ReportShown(session_state')
                      /\ session_state'.openai_client
                   THEN generate_narrative(
                            DayRow(session_state'.df_metrics, fecha), reply)
                   ELSE NoNarrative} :
               screen' = [click     |-> click,
                          reply     |-> reply,
                          message   |-> p4.message,
                          calls     |-> p4.calls \o p5.calls,
                          header    |-> IF ReportShown(session_state')
                                        THEN session_state'.selected_vehicle
                                        ELSE NoVehicle,
                          narrative |-> narrative.value,
                          fault     |-> narrative.outcome = "raised"]
        /\ IF pressed
           THEN /\ excel_files' = run.excel_files
                /\ results' = run.df_metrics
                /\ files_data' = run.files_data
                /\ processing' = IF run.excel_files = <<>>
                                 THEN "no files" ELSE "done"
           ELSE UNCHANGED <<excel_files, results, files_data, processing>>
        /\ UNCHANGED <<unit, disk, classifier_vars, scorer_vars,
                       detector_vars, loader_vars, metrics_vars>>

\* the user types the OpenAI key into the sidebar
EnterApiKey ==
    /\ ~widgets.api_key
    /\ Rerun("none", [widgets EXCEPT !.api_key = TRUE], <<>>, NoDate, "none")

\* the user presses "Escanear Vehiculos Disponibles"
ScanVehicles ==
    \E order \in FolderOrders :
        Rerun("scan", widgets, order, NoDate, "none")

\* the user picks another vehicle in the selectbox of Paso 2
SelectVehicle(vehicle_id) ==
    /\ session_state.vehicles_discovered
    /\ \E k \in 1..Len(session_state.available_vehicles) :
           session_state.available_vehicles[k] = vehicle_id
    /\ vehicle_id # widgets.selectbox
    /\ Rerun("none", [widgets EXCEPT !.selectbox = vehicle_id], <<>>,
             NoDate, "none")

\* the user sets the start date of the selected vehicle, up to its end date
SetStartDate(d) ==
    /\ Paso3Shown(session_state)
    /\ d # widgets.start_date[session_state.selected_vehicle]
    /\ date_range(session_state.selected_vehicle)[1] <= d
    /\ d <= widgets.end_date[session_state.selected_vehicle]
    /\ Rerun("none",
             [widgets EXCEPT !.start_date[session_state.selected_vehicle] = d],
             <<>>, NoDate, "none")

\* the user sets the end date of the selected vehicle: min_value is the
\* start date, max_value the end of the vehicle's range
SetEndDate(d) ==
    /\ Paso3Shown(session_state)
    /\ d # widgets.end_date[session_state.selected_vehicle]
    /\ widgets.start_date[session_state.selected_vehicle] <= d
    /\ d <= date_range(session_state.selected_vehicle)[2]
    /\ Rerun("none",
             [widgets EXCEPT !.end_date[session_state.selected_vehicle] = d],
             <<>>, NoDate, "none")

\* the user presses "Procesar Datos del Terreno"
ProcessData ==
    /\ Paso4Shown(session_state)
    /\ \E order \in FolderOrders :
           Rerun("process", widgets, order, NoDate, "none")

\* the user moves the slider of Paso 5
MoveSlider(threshold) ==
    /\ session_state.vehicle_data_loaded
    /\ threshold # widgets.speed_threshold_slider
    /\ Rerun("none",
             [widgets EXCEPT !.speed_threshold_slider = threshold],
             <<>>, NoDate, "none")

\* the user presses "Generar Narrativa del Dia" on the day fecha
GenerateNarrative(fecha, reply) ==
    /\ ReportShown(session_state)
    /\ session_state.openai_client
    /\ \E k \in 1..Len(session_state.available_dates_in_range) :
           session_state.available_dates_in_range[k] = fecha
    /\ Rerun("narrative", widgets, <<>>, fecha, reply)

(***************************************************************************)
(* Specifications: one per unit, and the pipeline as their union.          *)
(***************************************************************************)
InitClassifier ==
    /\ unit = "classifier"
    /\ ClassifierStart
    /\ ScorerStart
    /\ DetectorStart
    /\ IngestStart

\* a day on which nothing was measured
QuietDay == FeatureRecord(<<0, 0, 0, 0, 0, 0, 0, 0>>)

NextClassifier ==
    \/ \E s \in Scores : AppendDay(s, QuietDay)
    \/ PerformClustering

SpecClassifier == InitClassifier /\ [][NextClassifier]_vars

InitScorer ==
    /\ unit = "scorer"
    /\ ClassifierStart
    /\ row \in Rows
    /\ score_policy = "none"
    /\ speed_threshold = DEFAULT_SPEED_THRESHOLD
    /\ risk_score = 0
    /\ DetectorStart
    /\ IngestStart

NextScorer ==
    \/ CalculateRiskScore
    \/ CalculateEnhancedDefault
    \/ \E t \in ThresholdValues : CalculateEnhanced(t)

SpecScorer == InitScorer /\ [][NextScorer]_vars

\* the time between two consecutive samples, in seconds
Gaps == {30, 60}

\* the event annotations of the day
EventTexts == {NoText, ExcesoText, ExcesoDurante1, ExcesoDurante2}

InitDetector ==
    /\ unit = "detector"
    /\ ClassifierStart
    /\ ScorerStart
    /\ DetectorStart
    /\ IngestStart

NextDetector ==
    \/ \E g \in Gaps, e \in EventTexts : AppendSample(g, e, NoText)
    \/ DetectSpeedExcesses

SpecDetector == InitDetector /\ [][NextDetector]_vars

\* the flag annotations of the day
FlagTexts == {NoText, <<Durante2>>, ExcesoText}

\* the detector on short days whose Flags field carries text as well
NextDetectorFlags ==
    \/ \E g \in Gaps, e \in EventTexts, f \in FlagTexts :
           /\ Len(df) < MaxFlagSamples
           /\ AppendSample(g, e, f)
    \/ DetectSpeedExcesses

SpecDetectorFlags == InitDetector /\ [][NextDetectorFlags]_vars

\* the Hora cells of a sheet
RawHoras == {0, 30, 60, BadHora}

\* the speed cells of a sheet
RawSpeeds == {NumberCell(100), NumberCell(-5), TextCell(40), WordCell,
              EmptyCell}

InitLoader ==
    /\ unit = "loader"
    /\ ClassifierStart
    /\ ScorerStart
    /\ DetectorStart
    /\ IngestStart

NextLoader ==
    \/ \E h \in RawHoras, v \in RawSpeeds : AppendRawRow(h, v, NoText, NoText)
    \/ LoadExcelFile

SpecLoader == InitLoader /\ [][NextLoader]_vars

\* the speeds of the readings, in km/h
Speeds == {-5, 0, 20, 30}

\* the time between two consecutive readings, in seconds
ReadingGaps == {0, 2, 60}

\* the day starts at 08:00:58
MorningStart == 28858

InitMetrics ==
    /\ unit = "metrics"
    /\ ClassifierStart
    /\ ScorerStart
    /\ DetectorStart
    /\ IngestStart

NextMetrics ==
    \/ \E g \in ReadingGaps, v \in Speeds, e \in {NoText, ExcesoText} :
           /\ Len(df) < MaxReadings
           /\ AppendReading(MorningStart, g, v, e)
    \/ DetectSpeedExcesses
    \/ CalculateDrivingMetrics

SpecMetrics == InitMetrics /\ [][NextMetrics]_vars

\* the hour of the day at which the first reading is taken
StartHours == 0..23

\* readings 20 minutes or 3 hours apart
LongGaps == {1200, 10800}

\* short days that start at any hour: the aggregator over the time bands
NextFranja ==
    \/ \E h \in StartHours, g \in LongGaps, e \in {NoText, ExcesoText} :
           /\ Len(df) < MaxReadings
           /\ AppendReading(h * SecondsPerHour, g, 0, e)
    \/ DetectSpeedExcesses
    \/ CalculateDrivingMetrics

SpecFranja == InitMetrics /\ [][NextFranja]_vars

\* the date arguments of a call: no bound, or a bound inside the period
StartDates == {NoDate, 2}
EndDates == {NoDate, 1}

InitProcess ==
    /\ unit = "process"
    /\ ClassifierStart
    /\ ScorerStart
    /\ DetectorStart
    /\ LoaderStart
    /\ MetricsStart
    /\ ProcessStart
    /\ SessionStart
    /\ disk \in Layouts

NextProcess ==
    \E v \in Vehicles, s \in StartDates, e \in EndDates :
        ProcessVehicleFiles(v, s, e)

SpecProcess == InitProcess /\ [][NextProcess]_vars

\* annotations with brackets and parentheses in them
BracketTexts ==
    {NoText,
     ExcesoText,
     <<"(", ExcesoHead, Blank, ExcesoTail, ")">>,
     <<"[", Backslash, Backslash, "]", Durante1>>}

\* the loader on sheets whose annotations carry text
NextLoaderTexts ==
    \/ \E h \in {0, 30}, e \in BracketTexts, f \in {NoText, <<"[", "]">>} :
           AppendRawRow(h, EmptyCell, e, f)
    \/ LoadExcelFile

SpecLoaderTexts == InitLoader /\ [][NextLoaderTexts]_vars

\* risk scores on both sides of min_moderate_threshold and
\* min_risky_threshold (score points)
FloorScores == {0, 14, 15, 29, 30, 45}

\* small batches whose percentiles lie under the fixed minimums
NextFloors ==
    \/ \E s \in FloorScores :
           /\ Len(df_metrics) < MaxMeasured
           /\ AppendDay(s, QuietDay)
    \/ PerformClustering

SpecFloors == InitClassifier /\ [][NextFloors]_vars

\* days that differ in every feature
MeasuredDays ==
    {FeatureRecord(<<40, 90, 12, 2, 120, 1, 1, 0>>),
     FeatureRecord(<<60, 130, 30, 6, 300, 3, 2, 4>>)}

\* batches of measured days: the classifier and its centroids
NextCentroids ==
    \/ \E s \in {5, 50, 95}, day \in MeasuredDays :
           /\ Len(df_metrics) < MaxMeasured
           /\ AppendDay(s, day)
    \/ PerformClustering

SpecCentroids == InitClassifier /\ [][NextCentroids]_vars

InitSession ==
    /\ unit = "session"
    /\ ClassifierStart
    /\ ScorerStart
    /\ DetectorStart
    /\ LoaderStart
    /\ MetricsStart
    /\ ProcessStart
    /\ SessionStart
    /\ disk \in SessionLayouts

\* the interactions of a session, and perform_clustering called on the
\* empty batch
NextSession ==
    \/ EnterApiKey
    \/ ScanVehicles
    \/ \E v \in Vehicles : SelectVehicle(v)
    \/ \E d \in SessionDates : SetStartDate(d)
    \/ \E d \in SessionDates : SetEndDate(d)
    \/ ProcessData
    \/ \E t \in SessionSliderValues : MoveSlider(t)
    \/ \E d \in SessionDates, reply \in {"answers", "raises"} :
           GenerateNarrative(d, reply)
    \/ PerformClustering

SpecSession == InitSession /\ [][NextSession]_vars

Init ==
    \/ InitClassifier \/ InitScorer \/ InitDetector
    \/ InitLoader \/ InitMetrics \/ InitProcess \/ InitSession

Next ==
    \/ unit = "classifier" /\ NextClassifier
    \/ unit = "scorer" /\ NextScorer
    \/ unit = "detector" /\ NextDetector
    \/ unit = "loader" /\ NextLoader
    \/ unit = "metrics" /\ NextMetrics
    \/ unit = "process" /\ NextProcess
    \/ unit = "session" /\ NextSession

Spec == Init /\ [][Next]_vars

(***************************************************************************)
(* Properties of the risk scorer, checked under SpecScorer.                *)
(***************************************************************************)
\* C1: for every DailyMetrics record with non-negative fields and every
\* company speed threshold, calculate_risk_score and
\* calculate_enhanced_risk_score return a value in [0,100].
C1_ScoreBounds ==
    score_policy # "none" => (risk_score >= 0 /\ risk_score <= 100 * 600)

\* a scored record whose maximum speed is below 80 and below the threshold
C1_Witness ==
    /\ score_policy = "enhanced"
    /\ row.vel_max = 60
    /\ speed_threshold = 120
    /\ row.excesos_por_km = 40
    /\ risk_score = 6000

(***************************************************************************)
(* Properties of the profile classifier, checked under SpecClassifier.     *)
(***************************************************************************)
Clustered == clustering \in {"flat", "dynamic"}

ClusterOfRow(i) == df_metrics[i].cluster

\* C2: for any non-empty scored batch, perform_clustering gives every
\* record one tier id, and that id is 0, 1 or 2.
C2_TierCoverage ==
    Clustered =>
        /\ df_metrics # <<>>
        /\ \A i \in 1..Len(df_metrics) : ClusterOfRow(i) \in {0, 1, 2}

C2_Witness ==
    /\ clustering = "dynamic"
    /\ \A c \in {0, 1, 2} : \E i \in 1..Len(df_metrics) : ClusterOfRow(i) = c

C4_ThresholdOrdering ==
    clustering = "dynamic" => threshold_high > threshold_low

\* the +10 fallback fired: the floored 67th percentile did not exceed
\* threshold_low
C4_Witness ==
    /\ clustering = "dynamic"
    /\ Max2(percentile(ScoresOf(df_metrics), 67), 3000) <= threshold_low
    /\ threshold_high = threshold_low + 1000

RelabelledIn(i, lo, hi) ==
    ClusterColumn(SubSeq(ScoresOf(df_metrics), lo, hi))[i - lo + 1]
        # ClusterOfRow(i)

Detected == detection = "detected"

Rows0 == 1..Len(df)

\* C7: the run ids partition the index range into contiguous runs: every
\* sample belongs to exactly one run, all samples of a run share the same
\* flag value, and two adjacent runs never have the same flag value.
C7_RunPartition ==
    Detected =>
        /\ Len(run_id) = Len(df)
        /\ Len(is_exceso) = Len(df)
        /\ \A i, j \in Rows0 :
              (i <= j /\ run_id[i] = run_id[j]) =>
                  \A k \in i..j : /\ run_id[k] = run_id[i]
                                  /\ is_exceso[k] = is_exceso[i]
        /\ \A i \in Rows0 :
              i < Len(df) =>
                  /\ run_id[i + 1] \in {run_id[i], run_id[i] + 1}
                  /\ run_id[i + 1] # run_id[i] =>
                        is_exceso[i + 1] # is_exceso[i]

C7_Witness ==
    /\ Detected
    /\ is_exceso = <<FALSE, TRUE, TRUE, FALSE, TRUE>>
    /\ run_id = <<1, 2, 2, 3, 4>>

\* the maximal runs of consecutive flagged samples, as pairs of positions
MaximalRuns ==
    {ab \in Rows0 \X Rows0 :
        /\ ab[1] <= ab[2]
        /\ \A k \in ab[1]..ab[2] : is_exceso[k]
        /\ (ab[1] = 1 \/ ~is_exceso[ab[1] - 1])
        /\ (ab[2] = Len(df) \/ ~is_exceso[ab[2] + 1])}

EpisodeRuns ==
    {<<excesses_info[k].start_idx + 1, excesses_info[k].end_idx + 1>> :
        k \in 1..Len(excesses_info)}

\* C8: detect_speed_excesses returns one episode per maximal run of
\* consecutive flagged samples, in increasing start order, each with
\* start_idx <= end_idx and at least one unflagged sample between
\* consecutive episodes; a day with no flagged sample yields an empty list.
C8_OneEpisodePerRun ==
    Detected =>
        /\ EpisodeRuns = MaximalRuns
        /\ Len(excesses_info) = Cardinality(MaximalRuns)
        /\ Len(durations) = Len(excesses_info)
        /\ \A k \in 1..Len(excesses_info) :
              /\ excesses_info[k].start_idx <= excesses_info[k].end_idx
              /\ excesses_info[k].start_time
                    = df[excesses_info[k].start_idx + 1].Hora
              /\ k < Len(excesses_info) =>
                    \E m \in Rows0 :
                        /\ excesses_info[k].end_idx + 1 < m
                        /\ m < excesses_info[k + 1].start_idx + 1
                        /\ ~is_exceso[m]
        /\ (\A i \in Rows0 : ~is_exceso[i]) =>
              (excesses_info = <<>> /\ durations = <<>>)

C8_Witness ==
    /\ Detected
    /\ is_exceso = <<TRUE, TRUE, FALSE, FALSE, TRUE>>
    /\ Len(excesses_info) = 2
    /\ excesses_info[1].start_idx = 0 /\ excesses_info[1].end_idx = 1
    /\ excesses_info[2].start_idx = 4 /\ excesses_info[2].end_idx = 4

RECURSIVE DtFromTo(_, _)
DtFromTo(a, b) == IF a > b THEN 0 ELSE df[a].dt_sec + DtFromTo(a + 1, b)

\* the baseline duration of the run at positions a..b
Baseline(a, b) ==
    IF b < Len(df) THEN df[b + 1].Hora - df[a].Hora ELSE DtFromTo(a, b)

\* the numbers N of the "durante N minutos" phrases of a text
MinutesIn(text) ==
    {MinutesOfToken(text[i]) : i \in 1..Len(text)} \ {-1}

EventMinutes(a, b) == UNION {MinutesIn(df[i].Evento) : i \in a..b}

SampleMinutes(a, b) ==
    UNION {MinutesIn(Texto(df[i])) : i \in a..b}

\* C9: for a flagged run without a minutes phrase the duration is
\* timestamp(next sample) - timestamp(first sample of the run) when a
\* sample follows the run, and the sum of dt_seconds over the run's own
\* samples otherwise; dt 0,60,60,60,60 with the third and fourth samples
\* flagged gives one episode of 120 s.
C9_BaselineDuration ==
    Detected =>
        /\ \A k \in 1..Len(excesses_info) :
              LET a == excesses_info[k].start_idx + 1
                  b == excesses_info[k].end_idx + 1
              IN  SampleMinutes(a, b) = {} =>
                      /\ excesses_info[k].duration_sec = Baseline(a, b)
                      /\ durations[k] = Baseline(a, b)
        /\ (/\ [i \in Rows0 |-> df[i].dt_sec] = <<0, 60, 60, 60, 60>>
            /\ [i \in Rows0 |-> df[i].Evento]
                  = <<NoText, NoText, ExcesoText, ExcesoText, NoText>>)
           => durations = <<120>>

C9_Witness ==
    /\ Detected
    /\ [i \in Rows0 |-> df[i].dt_sec] = <<0, 60, 60, 60, 60>>
    /\ [i \in Rows0 |-> df[i].Evento]
          = <<NoText, NoText, ExcesoText, ExcesoText, NoText>>
    /\ Len(excesses_info) = 1
    /\ excesses_info[1].duration_sec = 120

LoaderShaped ==
    /\ \A i \in Rows0 : df[i].dt_sec >= 0
    /\ \A i, j \in Rows0 : i <= j => df[i].Hora <= df[j].Hora

\* C11: on a day shaped as the loader returns it (timestamps ascending,
\* dt_sec >= 0), every episode detect_speed_excesses returns has a duration
\* of at least 0 seconds, in excesses_info and in durations alike.
C11_DurationNonNegative ==
    (Detected /\ LoaderShaped) =>
        /\ \A k \in 1..Len(excesses_info) : excesses_info[k].duration_sec >= 0
        /\ \A k \in 1..Len(durations) : durations[k] >= 0

\* two episodes on a three-sample day: the first is measured up to the
\* sample after it, the second ends the day and is measured by its dt_sec
C11_Witness ==
    /\ Detected
    /\ LoaderShaped
    /\ Len(df) = 3
    /\ is_exceso = <<TRUE, FALSE, TRUE>>
    /\ Len(excesses_info) = 2
    /\ excesses_info[1].duration_sec = df[2].Hora - df[1].Hora
    /\ excesses_info[1].duration_sec > 0
    /\ excesses_info[2].duration_sec = df[3].dt_sec

\* the texts of the model that hold the excess phrase
ExcessPhraseTexts == {ExcesoText, ExcesoDurante1, ExcesoDurante2}

\* row i (1-based) lies inside an episode
InEpisode(i) ==
    \E k \in 1..Len(excesses_info) :
        excesses_info[k].start_idx + 1 <= i /\ i <= excesses_info[k].end_idx + 1

\* C12 as stated: a sample is flagged exactly when the concatenation of its
\* event and flags annotations holds the excess phrase, so that a phrase
\* standing in Flags alone flags the sample and puts it in an episode.
C12_FlagFromAnyField ==
    Detected =>
        \A i \in Rows0 :
            LET phrase == \/ df[i].Evento \in ExcessPhraseTexts
                          \/ df[i].Flags \in ExcessPhraseTexts
            IN  /\ is_exceso[i] <=> phrase
                /\ phrase => InEpisode(i)

\* C12 amended: a sample is flagged exactly when its event annotation
\* (Evento) holds the excess phrase; the Flags annotation is not read, so a
\* phrase standing in Flags alone neither flags the sample nor starts or
\* extends an episode.  The flagged samples are those inside episodes.
C12_FlagFromEvento ==
    Detected =>
        \A i \in Rows0 :
            /\ is_exceso[i] <=> df[i].Evento \in ExcessPhraseTexts
            /\ InEpisode(i) <=> df[i].Evento \in ExcessPhraseTexts

\* a flagged sample followed by one whose phrase stands in Flags alone: the
\* second is not flagged and the episode ends before it
C12_Witness ==
    /\ Detected
    /\ Len(df) = 2
    /\ df[1].Evento = ExcesoText
    /\ df[2].Evento = NoText
    /\ df[2].Flags = ExcesoText
    /\ is_exceso = <<TRUE, FALSE>>
    /\ Len(excesses_info) = 1
    /\ excesses_info[1].end_idx = 0

(***************************************************************************)
(* The loader: order, time steps and speeds of the returned frame.         *)
(***************************************************************************)
Loaded == loading = "loaded"

\* the Hora values of a sequence of rows, as a bag
HoraCount(rows, h) == Cardinality({i \in 1..Len(rows) : rows[i].Hora = h})

\* C13: whatever the order of the rows in the sheet, the frame
\* load_excel_file returns holds the same timestamps in ascending order,
\* its first dt_sec is 0 and every later dt_sec is the difference between
\* the row's timestamp and the previous row's, hence at least 0.
C13_LoaderOrdered ==
    Loaded =>
        /\ Len(df) = Len(raw_rows)
        /\ \A i \in Rows0 : HoraCount(df, df[i].Hora)
                                = HoraCount(raw_rows, df[i].Hora)
        /\ \A i, j \in Rows0 : i < j => df[i].Hora <= df[j].Hora
        /\ df # <<>> => df[1].dt_sec = 0
        /\ \A i \in Rows0 \ {1} :
               /\ df[i].dt_sec = df[i].Hora - df[i - 1].Hora
               /\ df[i].dt_sec >= 0

\* a sheet read in descending time order comes back ascending
C13_Witness ==
    /\ Loaded
    /\ Len(raw_rows) = 3
    /\ raw_rows[1].Hora = 60
    /\ raw_rows[2].Hora = 30
    /\ raw_rows[3].Hora = 0
    /\ df[1].Hora = 0 /\ df[2].Hora = 30 /\ df[3].Hora = 60
    /\ df[1].dt_sec = 0 /\ df[2].dt_sec = 30 /\ df[3].dt_sec = 30

\* C14: every sample of the returned frame has a speed of at least 0:
\* a non-numeric or missing cell gives 0 and no cell, a negative number
\* included, gives a negative Vel_kmh.
C14_SpeedNonNegative ==
    Loaded => \A i \in Rows0 : df[i].Vel_kmh >= 0

(***************************************************************************)
(* The aggregator: distance, excess totals, harsh windows, time bands.     *)
(***************************************************************************)
Aggregated == aggregation = "done"

RECURSIVE SpeedTimeSum(_)
\* the sum of speed * dt over the rows S of the day, in km/h * s
SpeedTimeSum(S) ==
    IF S = {} THEN 0
    ELSE LET i == CHOOSE j \in S : TRUE
         IN  df[i].Vel_kmh * df[i].dt_sec + SpeedTimeSum(S \ {i})

\* C15: distancia_km is the sum over the samples of speed * dt / 3600
\* (here: the sum of speed * dt, in units of 1/3600 km), and appending a
\* sample with non-negative speed and non-negative dt never lowers it.
C15_Distance ==
    /\ [](Aggregated => metrics.distancia_km = SpeedTimeSum(Rows0))
    /\ [][(/\ Len(df') = Len(df) + 1
           /\ df'[Len(df')].Vel_kmh >= 0
           /\ df'[Len(df')].dt_sec >= 0)
          => distancia_km(df', Len(df')) >= distancia_km(df, Len(df))]_vars

\* 30 km/h for 60 s and 20 km/h for 2 s: 1840/3600 km
C15_Witness ==
    /\ Aggregated
    /\ Len(df) = 3
    /\ df[2].Vel_kmh = 30 /\ df[2].dt_sec = 60
    /\ df[3].Vel_kmh = 20 /\ df[3].dt_sec = 2
    /\ metrics.distancia_km = 1840

RECURSIVE EpisodeSecondsFrom(_)
\* the durations of the episodes k, k+1, ... added up
EpisodeSecondsFrom(k) ==
    IF k > Len(excesses_info) THEN 0
    ELSE excesses_info[k].duration_sec + EpisodeSecondsFrom(k + 1)

\* C16: num_excesos is the number of episodes, dur_exceso_tot_sec the sum
\* of their durations, and excesos_por_km is num_excesos / distancia_km
\* when distancia_km > 0 and 0 otherwise.
C16_ExcessTotals ==
    Aggregated =>
        /\ metrics.num_excesos = Len(excesses_info)
        /\ metrics.dur_exceso_tot_sec = EpisodeSecondsFrom(1)
        /\ metrics.excesos_por_km.den > 0
        /\ IF metrics.distancia_km > 0
           THEN metrics.excesos_por_km.num * metrics.distancia_km =
                    metrics.num_excesos * 3600 * metrics.excesos_por_km.den
           ELSE metrics.excesos_por_km.num = 0

\* two episodes of 60 s on a day of 1 km: 120 s in total, 2 per km
C16_Witness ==
    /\ Aggregated
    /\ is_exceso = <<TRUE, FALSE, TRUE>>
    /\ Len(excesses_info) = 2
    /\ metrics.num_excesos = 2
    /\ metrics.dur_exceso_tot_sec = 120
    /\ metrics.distancia_km = 3600
    /\ metrics.excesos_por_km.num = 2 * metrics.excesos_por_km.den

\* the 1-minute wall-clock windows of the day
Windows == {df[i].Hora \div 60 : i \in Rows0}

\* row i speeds up by more than k km/h per second
SpeedsUp(i, k) ==
    /\ i > 1
    /\ df[i].dt_sec > 0
    /\ df[i].Vel_kmh - df[i - 1].Vel_kmh > k * df[i].dt_sec

\* row i slows down by more than k km/h per second
SlowsDown(i, k) ==
    /\ i > 1
    /\ df[i].dt_sec > 0
    /\ df[i - 1].Vel_kmh - df[i].Vel_kmh > k * df[i].dt_sec

\* C17: samples are grouped into 1-minute wall-clock windows; the
\* acceleration of sample i is (speed[i] - speed[i-1]) / dt[i], and 0 when
\* dt is 0; harsh_accel_windows is the number of windows whose largest
\* acceleration exceeds 10, harsh_brake_windows the number whose smallest
\* is below -10.  One window may count for both; a window whose samples
\* all have dt = 0 counts for neither.
C17_HarshWindows ==
    Aggregated =>
        /\ \A i \in Rows0 :
               /\ df[i].acc_kmhps.den > 0
               /\ IF df[i].dt_sec = 0
                  THEN df[i].acc_kmhps.num = 0
                  ELSE df[i].acc_kmhps.num * df[i].dt_sec =
                           (df[i].Vel_kmh - df[i - 1].Vel_kmh)
                               * df[i].acc_kmhps.den
        /\ metrics.harsh_accel_windows =
               Cardinality({w \in Windows :
                   \E i \in Rows0 : df[i].Hora \div 60 = w /\ SpeedsUp(i, 10)})
        /\ metrics.harsh_brake_windows =
               Cardinality({w \in Windows :
                   \E i \in Rows0 : df[i].Hora \div 60 = w /\ SlowsDown(i, 10)})

\* 0, 30 and 0 km/h at 08:00:58, 08:01:00 and 08:01:02: the window of
\* 08:01 counts once as harsh acceleration and once as harsh braking
C17_Witness ==
    /\ Aggregated
    /\ Len(df) = 3
    /\ df[1].Vel_kmh = 0 /\ df[2].Vel_kmh = 30 /\ df[3].Vel_kmh = 0
    /\ df[2].dt_sec = 2 /\ df[3].dt_sec = 2
    /\ df[2].tramo = df[3].tramo
    /\ df[1].tramo # df[2].tramo
    /\ metrics.harsh_accel_windows = 1
    /\ metrics.harsh_brake_windows = 1

\* the time band of hour h under half-open bounds [0,6) [6,12) [12,18) [18,24)
HalfOpenBand(h) == Labels[(h \div 6) + 1]

\* the count the record holds for a time band, 0 for a band it does not name
BandCount(band) ==
    IF band \in DOMAIN metrics.excesos_por_franja
    THEN metrics.excesos_por_franja[band]
    ELSE 0

\* the hour of the day at which episode k starts
StartHour(k) == (excesses_info[k].start_time \div 3600) % 24

\* C18: each episode is counted in the band of its start hour h with
\* half-open bounds, band number floor(h / 6): hour 0 falls in the first
\* band and hours 6, 12 and 18 open the second, third and fourth.
C18_HalfOpenBands ==
    Aggregated =>
        /\ DOMAIN metrics.excesos_por_franja \subseteq
               {Labels[b] : b \in 1..Len(Labels)}
        /\ \A b \in 1..Len(Labels) :
               BandCount(Labels[b]) =
                   Cardinality({k \in 1..Len(excesses_info) :
                       HalfOpenBand(StartHour(k)) = Labels[b]})

(***************************************************************************)
(* process_vehicle_files: failing days, and days exported twice.           *)
(***************************************************************************)
Processed == processing \in {"done", "no files"}

\* the day files the call visits: one per daily folder, with a file, of a
\* folder of the vehicle
Visited == {excel_files[i].filepath : i \in 1..Len(excel_files)}

\* the records of the result whose date is d
RecordsOf(d) == {i \in 1..Len(results) : results[i].fecha = d}

\* C19: whichever day files raise while they are loaded, scanned or
\* aggregated, the loop goes through every file: the result holds exactly
\* one record for each file that does not fail, in date order, and nothing
\* for a file that fails.
C19_SkipAndContinue ==
    Processed =>
        /\ Len(excel_files) = Cardinality(Visited)
        /\ Len(results) = Cardinality({p \in Visited : disk[p] = "good"})
        /\ \A d \in Dates :
               Cardinality(RecordsOf(d)) =
                   Cardinality({p \in Visited : disk[p] = "good" /\ p[2] = d})
        /\ \A i, j \in 1..Len(results) :
               i <= j => results[i].fecha <= results[j].fecha

\* the file of date 1 fails and the file of date 2 is still processed
C19_Witness ==
    /\ processing = "done"
    /\ disk[<<"A1", 1>>] = "bad"
    /\ disk[<<"A1", 2>>] = "good"
    /\ Len(excel_files) = 2
    /\ excel_files[1].filepath = <<"A1", 1>>
    /\ Len(results) = 1
    /\ results[1].fecha = 2

\* C20: the records of one vehicle hold at most one record per date,
\* whatever the folder layout, also when several vehicle folders each hold
\* a daily folder of the same date; files_data then has as many entries as
\* there are records.
C20_OneRecordPerDate ==
    Processed =>
        /\ \A d \in Dates : Cardinality(RecordsOf(d)) <= 1
        /\ Cardinality(DOMAIN files_data) = Len(results)

(***************************************************************************)
(* The loader's text cleaning.                                             *)
(***************************************************************************)
BracketChars == {"[", "]", "(", ")"}

\* the text t without its bracket and parenthesis characters
WithoutBrackets(t) == SelectSeq(t, LAMBDA c : c \notin BracketChars)

RECURSIVE Trimmed(_)
\* the text t without its leading and trailing blanks
Trimmed(t) ==
    IF t # <<>> /\ Head(t) = Blank THEN Trimmed(Tail(t))
    ELSE IF t # <<>> /\ t[Len(t)] = Blank
         THEN Trimmed(SubSeq(t, 1, Len(t) - 1))
         ELSE t

\* C21: the text the loader's clean_text produces holds none of the
\* characters "[", "]", "(" and ")", whatever the annotations are, and
\* keeps every other character in order (leading and trailing blanks
\* apart).
C21_BracketsStripped ==
    Loaded =>
        \A i \in Rows0 :
            /\ \A k \in 1..Len(df[i].Texto) : df[i].Texto[k] \notin BracketChars
            /\ df[i].Texto =
                   Trimmed(WithoutBrackets(
                       df[i].Evento \o <<Blank>> \o df[i].Flags))

(***************************************************************************)
(* The classifier's centroids.                                             *)
(***************************************************************************)
FeatureNames == {features[k] : k \in 1..Len(features)}

\* the rows of the classified batch that are in tier c
TierRows(c) == {i \in 1..Len(df_metrics) : df_metrics[i].cluster = c}

RECURSIVE FeatureTotal(_, _)
\* column f added up over the rows S of the classified batch
FeatureTotal(S, f) ==
    IF S = {} THEN 0
    ELSE LET i == CHOOSE j \in S : TRUE
         IN  df_metrics[i][f] + FeatureTotal(S \ {i}, f)

\* C22: for a non-empty batch perform_clustering returns exactly 3
\* centroid rows over the 8 listed features: the row of a tier with
\* members is the per-feature mean over the members, the row of a tier
\* without members is all zeros, and the tiers are those the scores alone
\* determine.
C22_Centroids ==
    Clustered =>
        /\ DOMAIN cluster_centers = 0..2
        /\ Cardinality(FeatureNames) = 8
        /\ \A c \in 0..2 :
               /\ DOMAIN cluster_centers[c] = FeatureNames
               /\ \A f \in FeatureNames :
                      LET mean == cluster_centers[c][f]
                      IN  /\ mean.den > 0
                          /\ IF TierRows(c) # {}
                             THEN mean.num * Cardinality(TierRows(c)) =
                                      FeatureTotal(TierRows(c), f) * mean.den
                             ELSE mean.num = 0
        /\ ClustersOf(df_metrics) = ClusterColumn(ScoresOf(df_metrics))

\* three days of different measurements: two share tier 0, one is alone
\* in tier 2 and tier 1 is empty
C22_Witness ==
    /\ clustering = "dynamic"
    /\ Len(df_metrics) = 3
    /\ TierRows(0) = {1, 2}
    /\ TierRows(1) = {}
    /\ TierRows(2) = {3}
    /\ df_metrics[1].vel_max = 90
    /\ df_metrics[2].vel_max = 130
    /\ cluster_centers[0]["vel_max"] = [num |-> 220, den |-> 2]
    /\ cluster_centers[1]["vel_max"].num = 0
    /\ cluster_centers[2]["vel_max"].num = df_metrics[3].vel_max

(***************************************************************************)
(* The tiers of one batch against its scores and the fixed minimums.       *)
(***************************************************************************)
\* C26: within one classified batch the tier is monotone in the score:
\* for any two rows a and b, risk_score(a) <= risk_score(b) implies
\* cluster(a) <= cluster(b); rows with equal scores get equal tiers.
C26_TierMonotone ==
    Clustered =>
        \A a, b \in 1..Len(df_metrics) :
            /\ df_metrics[a].risk_score <= df_metrics[b].risk_score
                   => ClusterOfRow(a) <= ClusterOfRow(b)
            /\ df_metrics[a].risk_score = df_metrics[b].risk_score
                   => ClusterOfRow(a) = ClusterOfRow(b)

\* a dynamic batch with all three tiers, two rows of one score among them
C26_Witness ==
    /\ clustering = "dynamic"
    /\ {ClusterOfRow(i) : i \in 1..Len(df_metrics)} = {0, 1, 2}
    /\ \E a, b \in 1..Len(df_metrics) :
           /\ a # b
           /\ df_metrics[a].risk_score = df_metrics[b].risk_score
           /\ ClusterOfRow(a) = 1
           /\ ClusterOfRow(b) = 1

\* C27: the fixed minimums hold in every batch: a row with risk_score < 15
\* is in tier 0, and a row in tier 2 has risk_score >= 30, whatever the
\* other scores of the batch are.
C27_AbsoluteFloors ==
    Clustered =>
        \A i \in 1..Len(df_metrics) :
            /\ df_metrics[i].risk_score < min_moderate_threshold
                   => ClusterOfRow(i) = 0
            /\ ClusterOfRow(i) = 2
                   => df_metrics[i].risk_score >= min_risky_threshold

\* a dynamic batch whose 33rd percentile is under 14 points and whose 67th
\* is under min_risky_threshold: the row of 14 is in tier 0, the row of 29
\* in tier 1 and the row of 30 in tier 2
C27_Witness ==
    /\ clustering = "dynamic"
    /\ percentile(ScoresOf(df_metrics), 33) < 100 * 14
    /\ percentile(ScoresOf(df_metrics), 67) < 100 * min_risky_threshold
    /\ \E i, j, k \in 1..Len(df_metrics) :
           /\ df_metrics[i].risk_score = 14 /\ ClusterOfRow(i) = 0
           /\ df_metrics[j].risk_score = 29 /\ ClusterOfRow(j) = 1
           /\ df_metrics[k].risk_score = 30 /\ ClusterOfRow(k) = 2

(***************************************************************************)
(* excesos_por_franja: its keys and the total of its counts.               *)
(***************************************************************************)
RECURSIVE CountTotal(_, _)
\* the total of the counts a dict holds under the keys K
CountTotal(counts, K) ==
    IF K = {} THEN 0
    ELSE LET key == CHOOSE x \in K : TRUE
         IN  counts[key] + CountTotal(counts, K \ {key})

\* C28: in every record of a day the keys of excesos_por_franja are among
\* the four band labels and its counts add up to num_excesos, for episodes
\* that start at any hour 0..23.
C28_BandKeysAndTotal ==
    Aggregated =>
        /\ DOMAIN metrics.excesos_por_franja \subseteq
               {Labels[b] : b \in 1..Len(Labels)}
        /\ CountTotal(metrics.excesos_por_franja,
                      DOMAIN metrics.excesos_por_franja)
               = metrics.num_excesos

(***************************************************************************)
(* Durations against the time that remains in the day.                     *)
(***************************************************************************)
\* C29: for an episode without a minutes phrase the duration is at most
\* the time from the first sample of its run to the last sample of the
\* day, whether the run ends before the last sample or at it: no time that
\* precedes the first sample of the run is counted.
C29_WithinRestOfDay ==
    (Detected /\ LoaderShaped) =>
        \A k \in 1..Len(excesses_info) :
            LET a == excesses_info[k].start_idx + 1
                b == excesses_info[k].end_idx + 1
            IN  SampleMinutes(a, b) = {} =>
                    excesses_info[k].duration_sec
                        <= df[Len(df)].Hora - df[a].Hora

(***************************************************************************)
(* The session: selections without data, the narrative, the slider and    *)
(* the vehicle of the report.                                              *)
(***************************************************************************)
\* what Paso 4 stores in the session
Stored(ss) ==
    <<ss.df_metrics, ss.files_data, ss.cluster_centers,
      ss.vehicle_data_loaded>>

C24_NarrativeFailureContained ==
    [][(screen'.click = "narrative" /\ screen'.reply = "raises") =>
          /\ ~screen'.fault
          /\ screen'.narrative = <<"Error generando narrativa">>
          /\ session_state'.df_metrics = session_state.df_metrics
          /\ Stored(session_state') = Stored(session_state)]_vars

\* the narrative of a loaded day was asked for and the call raised: the
\* error text is shown beside the report
C24_Witness ==
    /\ screen.click = "narrative"
    /\ screen.reply = "raises"
    /\ screen.narrative = <<"Error generando narrativa">>
    /\ ~screen.fault
    /\ session_state.vehicle_data_loaded
    /\ Len(session_state.df_metrics) = 2
    /\ screen.header # NoVehicle

\* C25: once data is loaded, whatever the slider has been through, the
\* stored risk_score of every record is the one of the threshold now
\* selected (the enhanced score for that threshold; at the default 85 the
\* baseline score of the load counts as well) and the stored tiers are
\* those of these scores.
C25_ScoresFollowSlider ==
    session_state.vehicle_data_loaded =>
        LET threshold == widgets.speed_threshold_slider
            batch     == session_state.df_metrics
        IN  /\ \A i \in 1..Len(batch) :
                   \/ batch[i].risk_score =
                          Points(calculate_enhanced_risk_score(batch[i],
                                                               threshold))
                   \/ /\ threshold = DEFAULT_SPEED_THRESHOLD
                      /\ batch[i].risk_score =
                             Points(calculate_risk_score(batch[i]))
            /\ ClustersOf(batch) = ClusterColumn(ScoresOf(batch))

\* C30: whenever the report is shown, every record of the session's
\* df_metrics is of the vehicle named in the header, the session's
\* selected vehicle; and vehicle_data_loaded implies that df_metrics,
\* files_data and cluster_centers are set.
C30_HeaderMatchesData ==
    /\ ReportShown(session_state) =>
           /\ screen.header = session_state.selected_vehicle
           /\ \A i \in 1..Len(session_state.df_metrics) :
                  session_state.df_metrics[i].vehicle_id
                      = session_state.selected_vehicle
    /\ session_state.vehicle_data_loaded =>
           /\ session_state.df_metrics # <<>>
           /\ session_state.files_data # <<>>
           /\ session_state.cluster_centers # NoCenters

====
